---- MODULE Spec2Model ----
(***************************************************************************)
(* Model of src/railway_network.py: the RailwayNetwork graph store, the    *)
(* CDL-zone classifier, the bounded backward path search and the signal    *)
(* placement planner.                                                      *)
(*                                                                         *)
(* Node ids are strings; a node is a record [id, node_type, position,      *)
(* metadata]; metadata and the networkx attribute dictionaries are         *)
(* functions from keys (strings) to values.  The networkx DiGraph is the   *)
(* record [order, node, succ, pred, length]: the node ids in insertion     *)
(* order (_node), the attribute dictionary of every node, the successors   *)
(* (_succ) and predecessors (_pred) of every node in insertion order, and  *)
(* the 'length' attribute of every edge.                                   *)
(***************************************************************************)
EXTENDS Integers, Sequences, FiniteSets, TLC

VARIABLES
    nodes,          \* self.nodes: id -> RailwayNode
    edges,          \* self.edges: <<from, to>> -> RailwayEdge
    graph,          \* self.graph: the networkx DiGraph
    cdl_zones,      \* self.cdl_zones
    signals,        \* self.signals
    ret,            \* the last call: its name, argument, result and error
    nx_trivial      \* whether the installed networkx yields the one-node path

vars == <<nodes, edges, graph, cdl_zones, signals, ret, nx_trivial>>

\* ------------------------------------------------------------------ values

\* NodeType (the enum's values)
TRACK == "track"
SWITCH == "switch"
SIGNAL == "signal"
CDL_ZONE == "cdl_zone"
PLATFORM == "platform"
ENTRY_POINT == "entry"
EXIT_POINT == "exit"

\* An empty dict.
EmptyDict == [k \in {} |-> k]

\* d1.update(d2): the keys of d2 win.
DictUpdate(d1, d2) == d2 @@ d1

\* RailwayNode(id, node_type, position, metadata)
RailwayNode(id, node_type, position, metadata) ==
    [id |-> id, node_type |-> node_type, position |-> position,
     metadata |-> metadata]

\* RailwayEdge(from_node, to_node, length): metadata defaults to {}.
RailwayEdge(from_node, to_node, length) ==
    [from_node |-> from_node, to_node |-> to_node, length |-> length,
     metadata |-> EmptyDict]

\* RailwayEdge(from_node, to_node, length, metadata)
RailwayEdgeWith(from_node, to_node, length, metadata) ==
    [from_node |-> from_node, to_node |-> to_node, length |-> length,
     metadata |-> metadata]

\* The absent result (None) of a search, and of a call that returns nothing.
None == <<>>

\* The fields of the network as one value.
Self == [nodes |-> nodes, edges |-> edges, graph |-> graph,
         cdl_zones |-> cdl_zones, signals |-> signals]

\* ------------------------------------------------------- networkx queries

\* Whether s holds x.
InSeq(s, x) == \E i \in 1..Len(s) : s[i] = x

\* graph.predecessors(n): in the order the edges into n were first added.
Predecessors(g, n) == g.pred[n]

\* graph[n] / graph.successors(n): in the order the edges out of n were added.
Successors(g, n) == g.succ[n]

\* graph.in_degree(n)
InDegree(g, n) == Len(Predecessors(g, n))

\* graph.has_edge(u, v)
HasEdge(g, u, v) == u \in DOMAIN g.succ /\ InSeq(g.succ[u], v)

\* ------------------------------------------------------------- Graph store

\* nx.DiGraph()
EmptyGraph ==
    [order |-> <<>>, node |-> EmptyDict, succ |-> EmptyDict,
     pred |-> EmptyDict, length |-> EmptyDict]

\* graph.add_node(id, **attr): a new id goes last; the attributes of an id
\* that is already there are updated, never cleared.
GraphAddNode(g, id, attr) ==
    IF id \in DOMAIN g.node
    THEN [g EXCEPT !.node = (id :> DictUpdate(g.node[id], attr)) @@ g.node]
    ELSE [g EXCEPT !.order = Append(g.order, id),
                   !.node = (id :> attr) @@ g.node,
                   !.succ = (id :> <<>>) @@ g.succ,
                   !.pred = (id :> <<>>) @@ g.pred]

\* A graph that keeps parallel edges: every add_edge adds a successor and a
\* predecessor, as a MultiDiGraph would.
GraphAddEdgeParallel(g, u, v, l) ==
    LET h == GraphAddNode(GraphAddNode(g, u, EmptyDict), v, EmptyDict)
    IN  [h EXCEPT !.succ = (u :> Append(h.succ[u], v)) @@ h.succ,
                  !.pred = (v :> Append(h.pred[v], u)) @@ h.pred,
                  !.length = (<<u, v>> :> l) @@ h.length]

\* graph.add_edge(u, v, length=l): an endpoint the graph lacks is added with
\* no attributes; a new edge goes last among the successors of u and the
\* predecessors of v, an existing one keeps its place and gets the length.
GraphAddEdge(g, u, v, l) ==
    LET h == GraphAddNode(GraphAddNode(g, u, EmptyDict), v, EmptyDict)
    IN  [h EXCEPT !.succ = (u :> IF InSeq(h.succ[u], v) THEN h.succ[u]
                                 ELSE Append(h.succ[u], v)) @@ h.succ,
                  !.pred = (v :> IF InSeq(h.pred[v], u) THEN h.pred[v]
                                 ELSE Append(h.pred[v], u)) @@ h.pred,
                  !.length = (<<u, v>> :> l) @@ h.length]

\* An add_node that keeps the two derived sets in step with the role given:
\* the id leaves a set whose role the node no longer has.
add_node_resetting(self, node) ==
    [self EXCEPT
        !.nodes = (node.id :> node) @@ self.nodes,
        !.graph = GraphAddNode(self.graph, node.id,
                      DictUpdate(("node_type" :> node.node_type)
                                 @@ ("position" :> node.position),
                                 node.metadata)),
        !.signals = IF node.node_type = SIGNAL
                    THEN self.signals \cup {node.id}
                    ELSE self.signals \ {node.id},
        !.cdl_zones = IF node.node_type = CDL_ZONE
                      THEN self.cdl_zones \cup {node.id}
                      ELSE self.cdl_zones \ {node.id}]

\* The metadata of node has a key that graph.add_node(node.id,
\* node_type=..., position=..., **node.metadata) is given already: by keyword
\* (node_type, position) or as a bound parameter of DiGraph.add_node (self,
\* node_for_adding).  The call raises TypeError before it is entered.
MetadataClashes(node) ==
    {"node_type", "position", "self", "node_for_adding"}
        \cap DOMAIN node.metadata # {}

\* RailwayNetwork.add_node: the node is stored in self.nodes first; when the
\* call of graph.add_node raises, the graph and the two derived sets are
\* left as they were.
add_node(self, node) ==
    IF MetadataClashes(node)
    THEN [self EXCEPT !.nodes = (node.id :> node) @@ self.nodes]
    ELSE [self EXCEPT
        !.nodes = (node.id :> node) @@ self.nodes,
        !.graph = GraphAddNode(self.graph, node.id,
                      DictUpdate(("node_type" :> node.node_type)
                                 @@ ("position" :> node.position),
                                 node.metadata)),
        !.signals = IF node.node_type = SIGNAL
                    THEN self.signals \cup {node.id} ELSE self.signals,
        !.cdl_zones = IF node.node_type = CDL_ZONE
                      THEN self.cdl_zones \cup {node.id} ELSE self.cdl_zones]

\* A guard that forgets the to-node.
EndpointsExistFromOnly(self, edge) == edge.from_node \in DOMAIN self.nodes

\* The guard of RailwayNetwork.add_edge: it raises ValueError otherwise.
EndpointsExist(self, edge) ==
    edge.from_node \in DOMAIN self.nodes /\ edge.to_node \in DOMAIN self.nodes

\* The metadata of edge has a key that graph.add_edge(from_node, to_node,
\* length=..., **edge.metadata) is given already: by keyword (length) or as a
\* bound parameter of DiGraph.add_edge (self, u_of_edge, v_of_edge).  The
\* call raises TypeError before it is entered.
EdgeMetadataClashes(edge) ==
    {"length", "self", "u_of_edge", "v_of_edge"} \cap DOMAIN edge.metadata # {}

\* RailwayNetwork.add_edge, past its guard: the edge is stored in self.edges
\* first; when the call of graph.add_edge raises, the graph is left as it
\* was.  The other metadata of an edge become attributes of the graph's edge
\* that nothing reads.
add_edge(self, edge) ==
    IF EdgeMetadataClashes(edge)
    THEN [self EXCEPT
        !.edges = (<<edge.from_node, edge.to_node>> :> edge) @@ self.edges]
    ELSE [self EXCEPT
        !.edges = (<<edge.from_node, edge.to_node>> :> edge) @@ self.edges,
        !.graph = GraphAddEdge(self.graph, edge.from_node, edge.to_node,
                               edge.length)]

\* --------------------------------------------------------- Zone classifier

\* A classifier that takes every node with an incoming edge.
IsMergeAnyEdge(g, n) == InDegree(g, n) > 0

\* A classifier whose merge test is off by one: more than two incoming edges.
IsMergeAboveTwo(g, n) == InDegree(g, n) > 2

\* The test of the classifier's loop: in_degree > 1.
IsMerge(g, n) == InDegree(g, n) > 1

\* A classifier that rewrites a merge node only from track or switch.
RewrittenFromTrackOrSwitch(self, id) ==
    IsMerge(self.graph, id) /\ self.nodes[id].node_type \in {TRACK, SWITCH}

\* The test "if node.node_type != NodeType.CDL_ZONE" for a merge node.
Rewritten(self, id) ==
    IsMerge(self.graph, id) /\ self.nodes[id].node_type # CDL_ZONE

\* A classifier that marks the networkx attribute only and leaves the role
\* of the RailwayNode as it was.
ClassifiedNodeKeepsRole(self, id) ==
    IF Rewritten(self, id)
    THEN [self.nodes[id] EXCEPT
            !.metadata = DictUpdate(@, "cdl_incoming_tracks"
                                       :> Predecessors(self.graph, id))]
    ELSE self.nodes[id]

\* A classifier that records the predecessors of every merge node on every
\* pass, marked before or not.
ClassifiedNodeRefreshed(self, id) ==
    IF IsMerge(self.graph, id)
    THEN [self.nodes[id] EXCEPT
            !.node_type = CDL_ZONE,
            !.metadata = DictUpdate(@, "cdl_incoming_tracks"
                                       :> Predecessors(self.graph, id))]
    ELSE self.nodes[id]

\* self.nodes[id] after the pass: a merge node not yet marked gets the role
\* and the list of its predecessors.
ClassifiedNode(self, id) ==
    IF Rewritten(self, id)
    THEN [self.nodes[id] EXCEPT
            !.node_type = CDL_ZONE,
            !.metadata = DictUpdate(@, "cdl_incoming_tracks"
                                       :> Predecessors(self.graph, id))]
    ELSE self.nodes[id]

\* self.graph.nodes[id] after the pass.
ClassifiedAttr(self, id) ==
    IF Rewritten(self, id)
    THEN DictUpdate(self.graph.node[id], "node_type" :> CDL_ZONE)
    ELSE self.graph.node[id]

\* A classifier that appends to its result inside the "not already marked"
\* branch: only the nodes it rewrites.
ZoneListOnlyNew(self) ==
    SelectSeq(self.graph.order, LAMBDA n : Rewritten(self, n))

\* The returned list: every merge node, marked before or not, in the order
\* of graph.nodes().
ZoneList(self) ==
    SelectSeq(self.graph.order, LAMBDA n : IsMerge(self.graph, n))

\* RailwayNetwork.identify_cdl_zones: the network after the pass (self) and
\* the returned list (result).
identify_cdl_zones(self) ==
    LET result == ZoneList(self)
    IN  [self |->
            [self EXCEPT
                !.nodes = [id \in DOMAIN self.nodes |->
                              IF id \in DOMAIN self.graph.node
                              THEN ClassifiedNode(self, id)
                              ELSE self.nodes[id]],
                !.graph = [self.graph EXCEPT !.node =
                              [id \in DOMAIN self.graph.node |->
                                  ClassifiedAttr(self, id)]],
                !.cdl_zones = self.cdl_zones
                              \cup {result[i] : i \in 1..Len(result)}],
         result |-> result]

\* --------------------------------------------------- Path & distance engine

\* The cutoff of the path enumeration.
Cutoff == 10

\* The 'length' of edge (u, v), 0 when the graph has no such edge.
SegmentLength(g, u, v) == IF HasEdge(g, u, v) THEN g.length[<<u, v>>] ELSE 0

\* A sum that stops at the first pair of the path that no edge joins.
RECURSIVE DistanceUntilGap(_, _)
DistanceUntilGap(g, path) ==
    IF Len(path) < 2 THEN 0
    ELSE IF ~HasEdge(g, path[1], path[2]) THEN 0
    ELSE SegmentLength(g, path[1], path[2]) + DistanceUntilGap(g, Tail(path))

\* RailwayNetwork.calculate_distance_along_path
RECURSIVE calculate_distance_along_path(_, _)
calculate_distance_along_path(g, path) ==
    IF Len(path) < 2 THEN 0
    ELSE SegmentLength(g, path[1], path[2])
         + calculate_distance_along_path(g, Tail(path))

\* The depth-first search of nx.all_simple_paths below the last node of
\* path: children holds the successors of that node still to be tried.  A
\* child already on the path is skipped; a child that is the target ends a
\* path and is not searched further; any other child is searched when the path
\* to it has fewer than cutoff edges.
RECURSIVE SimplePathsBelow(_, _, _, _, _)
SimplePathsBelow(g, path, children, target, cutoff) ==
    IF Len(children) = 0 THEN <<>>
    ELSE LET child == Head(children)
             rest == SimplePathsBelow(g, path, Tail(children), target, cutoff)
         IN  IF InSeq(path, child) THEN rest
             ELSE IF child = target THEN <<Append(path, child)>> \o rest
             ELSE IF Len(path) < cutoff
                  THEN SimplePathsBelow(g, Append(path, child),
                                        Successors(g, child), target, cutoff)
                       \o rest
                  ELSE rest

\* An enumeration whose cutoff counts the nodes of a path, not its edges.
all_simple_paths_by_nodes(g, source, target, cutoff, trivial) ==
    IF source = target
    THEN IF trivial /\ cutoff >= 0 THEN <<(<<source>>)>> ELSE <<>>
    ELSE IF cutoff < 2 THEN <<>>
    ELSE SimplePathsBelow(g, <<source>>, Successors(g, source), target,
                          cutoff - 1)

\* list(nx.all_simple_paths(graph, source, target, cutoff)) for two nodes of
\* the graph.  With source = target, networkx before 3.2 yields nothing and
\* networkx from 3.2 on yields the one-node path; trivial says which.
all_simple_paths(g, source, target, cutoff, trivial) ==
    IF source = target
    THEN IF trivial /\ cutoff >= 0 THEN <<(<<source>>)>> ELSE <<>>
    ELSE IF cutoff < 1 THEN <<>>
    ELSE SimplePathsBelow(g, <<source>>, Successors(g, source), target, cutoff)

\* A search that takes the first path enumerated.
MinPathFirst(g, paths) == paths[1]

\* A search that keeps the last of the paths of least total length.
RECURSIVE MinPathLast(_, _)
MinPathLast(g, paths) ==
    IF Len(paths) = 1 THEN paths[1]
    ELSE LET best == MinPathLast(g, Tail(paths))
         IN  IF calculate_distance_along_path(g, paths[1])
                < calculate_distance_along_path(g, best)
             THEN paths[1] ELSE best

\* min(paths, key=calculate_distance_along_path): the first path of least
\* total length.
RECURSIVE MinPath(_, _)
MinPath(g, paths) ==
    IF Len(paths) = 1 THEN paths[1]
    ELSE LET best == MinPath(g, Tail(paths))
         IN  IF calculate_distance_along_path(g, paths[1])
                <= calculate_distance_along_path(g, best)
             THEN paths[1] ELSE best

\* A walk that stops only when the distance is exceeded (> for >=).
RECURSIVE WalkBackwardStrict(_, _, _, _, _)
WalkBackwardStrict(g, path, i, acc, signal_distance) ==
    IF i < 2 THEN <<path[1], 0>>
    ELSE LET segment_length == g.length[<<path[i - 1], path[i]>>]
         IN  IF acc + segment_length > signal_distance
             THEN <<path[i - 1], signal_distance - acc>>
             ELSE WalkBackwardStrict(g, path, i - 1, acc + segment_length,
                                     signal_distance)

\* A walk that reports the offset from the placement node forward, not the
\* distance still to go back from the segment's far end.
RECURSIVE WalkBackwardFromTail(_, _, _, _, _)
WalkBackwardFromTail(g, path, i, acc, signal_distance) ==
    IF i < 2 THEN <<path[1], 0>>
    ELSE LET segment_length == g.length[<<path[i - 1], path[i]>>]
         IN  IF acc + segment_length >= signal_distance
             THEN <<path[i - 1], acc + segment_length - signal_distance>>
             ELSE WalkBackwardFromTail(g, path, i - 1, acc + segment_length,
                                       signal_distance)

\* A walk that places the signal at the head of the segment, current_node,
\* not at its tail.
RECURSIVE WalkBackwardAtHead(_, _, _, _, _)
WalkBackwardAtHead(g, path, i, acc, signal_distance) ==
    IF i < 2 THEN <<path[1], 0>>
    ELSE LET segment_length == g.length[<<path[i - 1], path[i]>>]
         IN  IF acc + segment_length >= signal_distance
             THEN <<path[i], signal_distance - acc>>
             ELSE WalkBackwardAtHead(g, path, i - 1, acc + segment_length,
                                     signal_distance)

\* The backward walk of find_signal_placement_point from index i of path
\* with accumulated_distance acc.
RECURSIVE WalkBackward(_, _, _, _, _)
WalkBackward(g, path, i, acc, signal_distance) ==
    IF i < 2 THEN <<path[1], 0>>
    ELSE LET segment_length == g.length[<<path[i - 1], path[i]>>]
         IN  IF acc + segment_length >= signal_distance
             THEN <<path[i - 1], signal_distance - acc>>
             ELSE WalkBackward(g, path, i - 1, acc + segment_length,
                               signal_distance)

\* A search that reports absence, with no fallback, when the selected path
\* is shorter than the signal distance.
find_placement_or_absent(g, zone, approach, signal_distance, trivial) ==
    LET paths == all_simple_paths(g, approach, zone, Cutoff, trivial)
    IN  IF Len(paths) = 0 THEN None
        ELSE IF calculate_distance_along_path(g, MinPath(g, paths))
                    < signal_distance THEN None
        ELSE WalkBackward(g, MinPath(g, paths), Len(MinPath(g, paths)), 0,
                          signal_distance)

\* RailwayNetwork.find_signal_placement_point: <<node, offset>> or None.
find_signal_placement_point(g, zone, approach, signal_distance, trivial) ==
    LET paths == all_simple_paths(g, approach, zone, Cutoff, trivial)
    IN  IF Len(paths) = 0 THEN None
        ELSE WalkBackward(g, MinPath(g, paths), Len(MinPath(g, paths)), 0,
                          signal_distance)

\* ------------------------------------------------ Signal placement planner

\* An id that joins the approach and the zone with one underscore.
SignalIdUnderscore(approach_track, cdl_zone_id) ==
    "SIG_" \o approach_track \o "_" \o cdl_zone_id

\* f"SIG_{approach_track}_to_{cdl_zone_id}"
SignalId(approach_track, cdl_zone_id) ==
    "SIG_" \o approach_track \o "_to_" \o cdl_zone_id

\* The (cdl_zone_id, approach_track) pairs in the order of the two nested
\* loops of place_signals_before_cdl_zones: zones from index i on.
RECURSIVE Approaches(_, _, _)
Approaches(g, zones, i) ==
    IF i > Len(zones) THEN <<>>
    ELSE LET incoming_tracks == Predecessors(g, zones[i])
         IN  [k \in 1..Len(incoming_tracks) |-> <<zones[i], incoming_tracks[k]>>]
             \o Approaches(g, zones, i + 1)

\* Metadata that records the achieved offset as the distance.
SignalMetadataAchieved(cdl_zone_id, approach_track, signal_distance, offset) ==
    ("protects_cdl_zone" :> cdl_zone_id)
    @@ ("approach_from" :> approach_track)
    @@ ("distance_to_cdl" :> offset)
    @@ ("offset_from_placement" :> offset)

\* The metadata of a new signal node.
SignalMetadata(cdl_zone_id, approach_track, signal_distance, offset) ==
    ("protects_cdl_zone" :> cdl_zone_id)
    @@ ("approach_from" :> approach_track)
    @@ ("distance_to_cdl" :> signal_distance)
    @@ ("offset_from_placement" :> offset)

\* A planner that never skips.
AlreadyExistsNever(self, signal_id) == FALSE

\* Whether the planner skips the pair: a node of that id is stored already.
AlreadyExists(self, signal_id) == signal_id \in DOMAIN self.nodes

\* A planner that puts the signal at the position of the approach node, not
\* of the placement node.
PlaceOneAtApproach(st, cdl_zone_id, approach_track, signal_distance, trivial) ==
    LET placement == find_signal_placement_point(st.self.graph, cdl_zone_id,
                         approach_track, signal_distance, trivial)
        signal_id == SignalId(approach_track, cdl_zone_id)
        signal_node == RailwayNode(signal_id, SIGNAL,
            st.self.nodes[approach_track].position,
            SignalMetadata(cdl_zone_id, approach_track, signal_distance,
                           placement[2]))
    IN  IF placement = None THEN st
        ELSE IF AlreadyExists(st.self, signal_id) THEN st
        ELSE [self |-> add_node(st.self, signal_node),
              new_signals |-> Append(st.new_signals, signal_id)]

\* A planner that stores the signal node anew when its id exists already,
\* with the distance and the offset of this pass, without returning the id.
PlaceOneRefreshing(st, cdl_zone_id, approach_track, signal_distance, trivial) ==
    LET placement == find_signal_placement_point(st.self.graph, cdl_zone_id,
                         approach_track, signal_distance, trivial)
        signal_id == SignalId(approach_track, cdl_zone_id)
        signal_node == RailwayNode(signal_id, SIGNAL,
            st.self.nodes[placement[1]].position,
            SignalMetadata(cdl_zone_id, approach_track, signal_distance,
                           placement[2]))
    IN  IF placement = None THEN st
        ELSE IF AlreadyExists(st.self, signal_id)
             THEN [self |-> add_node(st.self, signal_node),
                   new_signals |-> st.new_signals]
        ELSE [self |-> add_node(st.self, signal_node),
              new_signals |-> Append(st.new_signals, signal_id)]

\* One pass of the inner loop body for the pair (cdl_zone_id, approach_track):
\* st is [self, new_signals].
PlaceOne(st, cdl_zone_id, approach_track, signal_distance, trivial) ==
    LET placement == find_signal_placement_point(st.self.graph, cdl_zone_id,
                         approach_track, signal_distance, trivial)
        signal_id == SignalId(approach_track, cdl_zone_id)
        signal_node == RailwayNode(signal_id, SIGNAL,
            st.self.nodes[placement[1]].position,
            SignalMetadata(cdl_zone_id, approach_track, signal_distance,
                           placement[2]))
    IN  IF placement = None THEN st
        ELSE IF AlreadyExists(st.self, signal_id) THEN st
        ELSE [self |-> add_node(st.self, signal_node),
              new_signals |-> Append(st.new_signals, signal_id)]

\* The two loops over the pairs from index i on.
RECURSIVE PlaceLoop(_, _, _, _, _)
PlaceLoop(st, pairs, i, signal_distance, trivial) ==
    IF i > Len(pairs) THEN st
    ELSE PlaceLoop(PlaceOne(st, pairs[i][1], pairs[i][2], signal_distance,
                            trivial),
                   pairs, i + 1, signal_distance, trivial)

\* RailwayNetwork.place_signals_before_cdl_zones: the network afterwards (self)
\* and the returned list (new_signals).
place_signals_before_cdl_zones(self, signal_distance, trivial) ==
    LET classified == identify_cdl_zones(self)
    IN  PlaceLoop([self |-> classified.self, new_signals |-> <<>>],
                  Approaches(classified.self.graph, classified.result, 1),
                  1, signal_distance, trivial)

\* ---------------------------------------------------------- Statistics view

\* sum(e.length for e in self.edges.values()) over the edges of keys.
RECURSIVE TotalLength(_, _)
TotalLength(self, keys) ==
    IF keys = {} THEN 0
    ELSE LET k == CHOOSE x \in keys : TRUE
         IN  self.edges[k].length + TotalLength(self, keys \ {k})

\* sum(1 for n in self.nodes.values() if n.node_type == t)
CountRole(self, t) ==
    Cardinality({n \in DOMAIN self.nodes : self.nodes[n].node_type = t})

\* RailwayNetwork.get_network_statistics
get_network_statistics(self) ==
    [total_nodes |-> Len(self.graph.order),
     total_edges |-> Cardinality(DOMAIN self.graph.length),
     tracks |-> CountRole(self, TRACK),
     switches |-> CountRole(self, SWITCH),
     signals |-> Cardinality(self.signals),
     cdl_zones |-> Cardinality(self.cdl_zones),
     platforms |-> CountRole(self, PLATFORM),
     total_track_length |-> TotalLength(self, DOMAIN self.edges)]

\* ----------------------------------------------------------------- actions

\* What a call leaves in ret: its name, its argument, its result, its error,
\* and whether it is a classification or a placement that repeats the call
\* before it.
Call(op, arg, val, error) ==
    [op |-> op, arg |-> arg, val |-> val, error |-> error,
     repeated |-> /\ op \in {"identify_cdl_zones",
                             "place_signals_before_cdl_zones"}
                  /\ ret.op = op
                  /\ ret.arg = arg]

\* The network's fields become those of self.
Becomes(self) ==
    /\ nodes' = self.nodes
    /\ edges' = self.edges
    /\ graph' = self.graph
    /\ cdl_zones' = self.cdl_zones
    /\ signals' = self.signals

\* RailwayNetwork(): an empty network.
EmptyNetwork ==
    [nodes |-> EmptyDict, edges |-> EmptyDict, graph |-> EmptyGraph,
     cdl_zones |-> {}, signals |-> {}]

\* The network is self, and nothing has been called.
StartsAs(self) ==
    /\ nodes = self.nodes
    /\ edges = self.edges
    /\ graph = self.graph
    /\ cdl_zones = self.cdl_zones
    /\ signals = self.signals
    /\ ret = [op |-> "init", arg |-> <<>>, val |-> None, error |-> "",
              repeated |-> FALSE]
    /\ nx_trivial \in BOOLEAN

\* network.add_node(node)
AddNode(node) ==
    /\ ~MetadataClashes(node)
    /\ Becomes(add_node(Self, node))
    /\ ret' = Call("add_node", <<>>, None, "")
    /\ UNCHANGED nx_trivial

\* network.add_node(node) with a metadata key that clashes with the call of
\* graph.add_node: TypeError, after the node was stored in self.nodes.
AddNodeRaises(node) ==
    /\ MetadataClashes(node)
    /\ Becomes(add_node(Self, node))
    /\ ret' = Call("add_node", <<node.id>>, None, "TypeError")
    /\ UNCHANGED nx_trivial

\* network.add_edge(edge) with both endpoints stored
AddEdge(edge) ==
    /\ EndpointsExist(Self, edge)
    /\ ~EdgeMetadataClashes(edge)
    /\ Becomes(add_edge(Self, edge))
    /\ ret' = Call("add_edge", <<>>, None, "")
    /\ UNCHANGED nx_trivial

\* network.add_edge(edge) with both endpoints stored and a metadata key that
\* clashes with the call of graph.add_edge: TypeError, after the edge was
\* stored in self.edges.
AddEdgeRaisesTypeError(edge) ==
    /\ EndpointsExist(Self, edge)
    /\ EdgeMetadataClashes(edge)
    /\ Becomes(add_edge(Self, edge))
    /\ ret' = Call("add_edge", <<edge.from_node, edge.to_node>>, None,
                   "TypeError")
    /\ UNCHANGED nx_trivial

\* network.add_edge(edge) with an endpoint that is not stored: ValueError,
\* whose message names the two endpoints
AddEdgeRaises(edge) ==
    /\ ~EndpointsExist(Self, edge)
    /\ ret' = Call("add_edge", <<edge.from_node, edge.to_node>>, None,
                   "ValueError")
    /\ UNCHANGED <<nodes, edges, graph, cdl_zones, signals, nx_trivial>>

\* network.identify_cdl_zones()
IdentifyCdlZones ==
    LET r == identify_cdl_zones(Self)
    IN  /\ Becomes(r.self)
        /\ ret' = Call("identify_cdl_zones", <<>>, r.result, "")
        /\ UNCHANGED nx_trivial

\* network.place_signals_before_cdl_zones(signal_distance)
PlaceSignals(signal_distance) ==
    LET r == place_signals_before_cdl_zones(Self, signal_distance, nx_trivial)
    IN  /\ Becomes(r.self)
        /\ ret' = Call("place_signals_before_cdl_zones", <<signal_distance>>,
                       r.new_signals, "")
        /\ UNCHANGED nx_trivial

\* network.find_signal_placement_point(cdl_zone_id, approach_track, d) for
\* two nodes of the graph
FindPlacement(cdl_zone_id, approach_track, signal_distance) ==
    /\ approach_track \in DOMAIN graph.node
    /\ cdl_zone_id \in DOMAIN graph.node
    /\ ret' = Call("find_signal_placement_point",
                   <<cdl_zone_id, approach_track, signal_distance>>,
                   find_signal_placement_point(graph, cdl_zone_id,
                       approach_track, signal_distance, nx_trivial), "")
    /\ UNCHANGED <<nodes, edges, graph, cdl_zones, signals, nx_trivial>>

\* network.find_signal_placement_point(cdl_zone_id, approach_track, d) for
\* an approach that is no node of the graph: nx.all_simple_paths raises
\* NodeNotFound, which "except nx.NetworkXNoPath" does not catch.
FindPlacementRaises(cdl_zone_id, approach_track, signal_distance) ==
    /\ approach_track \notin DOMAIN graph.node
    /\ ret' = Call("find_signal_placement_point",
                   <<cdl_zone_id, approach_track, signal_distance>>, None,
                   "NodeNotFound")
    /\ UNCHANGED <<nodes, edges, graph, cdl_zones, signals, nx_trivial>>

\* network.get_network_statistics()
GetNetworkStatistics ==
    /\ ret' = Call("get_network_statistics", <<>>,
                   get_network_statistics(Self), "")
    /\ UNCHANGED <<nodes, edges, graph, cdl_zones, signals, nx_trivial>>

\* network.calculate_distance_along_path(path)
CalculateDistance(path) ==
    /\ ret' = Call("calculate_distance_along_path", <<path>>,
                   calculate_distance_along_path(graph, path), "")
    /\ UNCHANGED <<nodes, edges, graph, cdl_zones, signals, nx_trivial>>

\* ------------------------------------------------- a station under analysis

\* The nodes the callers add: the approach A, the approach B that its caller
\* declares a conflict zone, the merge node M, and a node whose id has the
\* form of a signal id.
NodeInputs ==
    { RailwayNode("A", TRACK, <<0, 0>>, EmptyDict),
      RailwayNode("B", CDL_ZONE, <<0, 1>>, EmptyDict),
      RailwayNode("M", TRACK, <<1, 0>>, EmptyDict),
      RailwayNode("SIG_A_to_M", TRACK, <<2, 2>>, EmptyDict) }

\* The edges the callers add: the two approaches of M, one of them with two
\* lengths, and a loop at M.
EdgeInputs ==
    { RailwayEdge("A", "M", 2), RailwayEdge("A", "M", 5),
      RailwayEdge("B", "M", 5), RailwayEdge("M", "M", 2) }

\* The signal distances the callers ask for.
Distances == {3, 5}

\* The number of edges of a station.
MaxEdges == 2

\* The edge is stored already, or the station has room for one more.
EdgeFits(edge) ==
    \/ <<edge.from_node, edge.to_node>> \in DOMAIN edges
    \/ Cardinality(DOMAIN edges) < MaxEdges

Init == StartsAs(EmptyNetwork)

Next ==
    \/ \E node \in NodeInputs : AddNode(node)
    \/ \E edge \in EdgeInputs : EdgeFits(edge) /\ AddEdge(edge)
    \/ \E edge \in EdgeInputs : AddEdgeRaises(edge)
    \/ IdentifyCdlZones
    \/ \E d \in Distances : PlaceSignals(d)

Spec == Init /\ [][Next]_vars

\* ------------------------------------------------- the placement search

\* The edge lengths and the largest signal distance of the searches.
RouteLengths == {1, 3}
MaxDistance == 4

\* Four track nodes, added in this order.
TrackNode(id) == RailwayNode(id, TRACK, <<0, 0>>, EmptyDict)
FourTracks ==
    add_node(add_node(add_node(add_node(EmptyNetwork, TrackNode("A")),
        TrackNode("B")), TrackNode("C")), TrackNode("M"))

\* The edges of the searched graphs: the routes A-M, A-B-M and A-B-C-M.
RouteEdges ==
    { RailwayEdge(e[1], e[2], l) :
        e \in {<<"A", "M">>, <<"A", "B">>, <<"B", "M">>, <<"B", "C">>,
               <<"C", "M">>},
        l \in RouteLengths }

InitPlacement == StartsAs(FourTracks)

NextPlacement ==
    \/ \E edge \in RouteEdges : AddEdge(edge)
    \/ \E a \in {"A", "B"}, d \in 1..MaxDistance : FindPlacement("M", a, d)

SpecPlacement == InitPlacement /\ [][NextPlacement]_vars

\* ------------------------------------------------- the short approach

\* The station of test_signal_distance: its four nodes, added in the test's
\* order, then its three edges in any order.
ShortApproachNodes ==
    << RailwayNode("START", ENTRY_POINT, <<0, 0>>, EmptyDict),
       RailwayNode("MID", TRACK, <<300, 0>>, EmptyDict),
       RailwayNode("CDL", TRACK, <<800, 0>>, EmptyDict),
       RailwayNode("OTHER", TRACK, <<0, 100>>, EmptyDict) >>

ShortApproachStation ==
    add_node(add_node(add_node(add_node(EmptyNetwork, ShortApproachNodes[1]),
        ShortApproachNodes[2]), ShortApproachNodes[3]), ShortApproachNodes[4])

ShortApproachEdges ==
    { RailwayEdge("START", "MID", 300), RailwayEdge("MID", "CDL", 500),
      RailwayEdge("OTHER", "CDL", 850) }

\* The signal distances asked for: the test's 500 and the server's choice.
ShortApproachDistances == {200, 500, 600}

InitShortApproach == StartsAs(ShortApproachStation)

NextShortApproach ==
    \/ \E edge \in ShortApproachEdges : AddEdge(edge)
    \/ IdentifyCdlZones
    \/ \E d \in ShortApproachDistances : PlaceSignals(d)
    \/ \E a \in {"START", "MID", "OTHER"}, d \in ShortApproachDistances :
          FindPlacement("CDL", a, d)

SpecShortApproach == InitShortApproach /\ [][NextShortApproach]_vars

\* ------------------------------------------------- the detour

\* A merge at M with approaches A and B, where A also reaches M through B:
\* three nodes at different positions, and edges of two lengths, so that the
\* route through B can be the shorter one.
DetourNodes ==
    << RailwayNode("A", TRACK, <<0, 100>>, EmptyDict),
       RailwayNode("B", TRACK, <<0, 0>>, EmptyDict),
       RailwayNode("M", TRACK, <<500, 50>>, EmptyDict) >>

DetourStation ==
    add_node(add_node(add_node(EmptyNetwork, DetourNodes[1]), DetourNodes[2]),
             DetourNodes[3])

DetourEdges ==
    { RailwayEdge("A", "M", 1), RailwayEdge("A", "M", 5),
      RailwayEdge("B", "M", 1), RailwayEdge("B", "M", 5),
      RailwayEdge("A", "B", 1) }

DetourDistances == {1, 2, 4}

InitDetour == StartsAs(DetourStation)

NextDetour ==
    \/ \E edge \in DetourEdges : AddEdge(edge)
    \/ IdentifyCdlZones
    \/ \E d \in DetourDistances : PlaceSignals(d)

SpecDetour == InitDetour /\ [][NextDetour]_vars

\* ------------------------------------------------- the roles of a merge

\* The station of test_switch_nodes: the tracks T1 and T2 and a third, T3,
\* are stored; the node SW they lead to is added, and added again, with any
\* of several roles and with or without an attribute of its own, one of them
\* an attribute named node_type.
RolesStation ==
    add_node(add_node(add_node(EmptyNetwork,
        RailwayNode("T1", TRACK, <<0, 100>>, EmptyDict)),
        RailwayNode("T2", TRACK, <<0, 0>>, EmptyDict)),
        RailwayNode("T3", TRACK, <<0, 50>>, EmptyDict))

RolesNodes ==
    { RailwayNode("SW", SWITCH, <<600, 50>>, EmptyDict),
      RailwayNode("SW", PLATFORM, <<600, 50>>, "name" :> "P1"),
      RailwayNode("SW", SIGNAL, <<700, 50>>, EmptyDict),
      RailwayNode("SW", ENTRY_POINT, <<600, 50>>, EmptyDict),
      RailwayNode("SW", EXIT_POINT, <<600, 50>>, EmptyDict),
      RailwayNode("SW", SWITCH, <<600, 50>>, "node_type" :> "switch") }

RolesEdges ==
    { RailwayEdge("T1", "SW", 650), RailwayEdge("T2", "SW", 650),
      RailwayEdge("T3", "SW", 650) }

InitRoles == StartsAs(RolesStation)

NextRoles ==
    \/ \E node \in RolesNodes : AddNode(node)
    \/ \E node \in RolesNodes : AddNodeRaises(node)
    \/ \E edge \in RolesEdges : AddEdge(edge)
    \/ \E edge \in RolesEdges : AddEdgeRaises(edge)
    \/ IdentifyCdlZones
    \/ PlaceSignals(500)

SpecRoles == InitRoles /\ [][NextRoles]_vars

\* ------------------------------------------------- the edges of a pair

\* Three stored tracks U, V and W; the edges between U and V in both
\* directions, each with two lengths, and an edge from W to V.
PairStation ==
    add_node(add_node(add_node(EmptyNetwork, TrackNode("U")), TrackNode("V")),
             TrackNode("W"))

PairEdges ==
    { RailwayEdge("U", "V", 100), RailwayEdge("U", "V", 250),
      RailwayEdge("V", "U", 100), RailwayEdge("V", "U", 400),
      RailwayEdge("W", "V", 300) }

\* The paths measured: an edge, its reverse, a route of two edges, a pair of
\* nodes that no edge joins, such a pair before an edge, a pair with an id
\* that is not stored, a single node and the empty path.
PairPaths ==
    { <<"U", "V">>, <<"V", "U">>, <<"W", "V", "U">>, <<"U", "W">>,
      <<"U", "W", "V">>, <<"X", "V">>, <<"U">>, <<>> }

InitPair == StartsAs(PairStation)

NextPair ==
    \/ \E edge \in PairEdges : AddEdge(edge)
    \/ IdentifyCdlZones
    \/ GetNetworkStatistics
    \/ \E path \in PairPaths : CalculateDistance(path)

SpecPair == InitPair /\ [][NextPair]_vars

\* ------------------------------------------------- the long approach

\* A line of twelve track nodes, N0 to N11, the first ten joined in a chain
\* of nine edges of length 1.
LineIds ==
    <<"N0", "N1", "N2", "N3", "N4", "N5", "N6", "N7", "N8", "N9", "N10", "N11">>

RECURSIVE LineNodes(_)
LineNodes(k) ==
    IF k = 0 THEN EmptyNetwork
    ELSE add_node(LineNodes(k - 1), TrackNode(LineIds[k]))

RECURSIVE LineChain(_)
LineChain(k) ==
    IF k = 0 THEN LineNodes(Len(LineIds))
    ELSE add_edge(LineChain(k - 1),
                  RailwayEdge(LineIds[k], LineIds[k + 1], 1))

\* The edges added to the line: its last two links, a shortcut past N1 and
\* an edge back from N2 to N1, which closes a cycle.
LineEdges ==
    { RailwayEdge(e[1], e[2], l) :
        e \in {<<"N9", "N10">>, <<"N10", "N11">>, <<"N0", "N2">>,
               <<"N2", "N1">>},
        l \in {1, 2} }

\* The signal distances of the searches: within the line and beyond it.
LineDistances == {4, 20}

InitLongApproach == StartsAs(LineChain(9))

NextLongApproach ==
    \/ \E edge \in LineEdges : AddEdge(edge)
    \/ \E z \in {"N10", "N11"}, a \in {"N0", "N1"}, d \in LineDistances :
          FindPlacement(z, a, d)
    \/ \E z \in {"N10", "N11"}, d \in LineDistances :
          FindPlacementRaises(z, "GHOST", d)

SpecLongApproach == InitLongApproach /\ [][NextLongApproach]_vars

\* ------------------------------------------------- every call, in any order

\* The nodes added, from an empty network: the tracks A and B, the node M
\* they lead to, added as a track, as a signal or as a conflict zone, and B
\* as a signal with a position, or a key self, among its metadata.
GrowthNodes ==
    { RailwayNode("A", TRACK, <<0, 0>>, EmptyDict),
      RailwayNode("B", TRACK, <<0, 100>>, EmptyDict),
      RailwayNode("M", TRACK, <<500, 50>>, EmptyDict),
      RailwayNode("M", SIGNAL, <<500, 50>>, EmptyDict),
      RailwayNode("M", CDL_ZONE, <<500, 50>>, EmptyDict),
      RailwayNode("B", SIGNAL, <<0, 100>>, "position" :> <<0, 100>>),
      RailwayNode("B", SIGNAL, <<0, 100>>, "self" :> 1) }

\* The edges added: the two approaches of M, one of them with two lengths,
\* the other also with a length, or a key u_of_edge, among its metadata.
GrowthEdges ==
    { RailwayEdge("A", "M", 5), RailwayEdge("A", "M", 2),
      RailwayEdge("B", "M", 5),
      RailwayEdgeWith("B", "M", 5, "length" :> 5),
      RailwayEdgeWith("B", "M", 5, "u_of_edge" :> "Q") }

\* The signal distance of the passes.
GrowthDistances == {3}

InitGrowth == StartsAs(EmptyNetwork)

NextGrowth ==
    \/ \E node \in GrowthNodes : AddNode(node)
    \/ \E node \in GrowthNodes : AddNodeRaises(node)
    \/ \E edge \in GrowthEdges : AddEdge(edge)
    \/ \E edge \in GrowthEdges : AddEdgeRaises(edge)
    \/ \E edge \in GrowthEdges : AddEdgeRaisesTypeError(edge)
    \/ IdentifyCdlZones
    \/ \E d \in GrowthDistances : PlaceSignals(d)
    \/ GetNetworkStatistics

SpecGrowth == InitGrowth /\ [][NextGrowth]_vars

\* ------------------------------------------------- edges of length zero

\* Three track nodes, added in this order.
ThreeTracks ==
    add_node(add_node(add_node(EmptyNetwork, TrackNode("P")), TrackNode("Q")),
             TrackNode("Z"))

\* The edges of the searched graphs: the route P-Q-Z, each edge of it of
\* length zero or not, and the edge P-Z.  The searches start at P, at Q and
\* at the zone Z itself.
OffsetEdges ==
    { RailwayEdge("P", "Q", 0), RailwayEdge("P", "Q", 2),
      RailwayEdge("Q", "Z", 0), RailwayEdge("Q", "Z", 1),
      RailwayEdge("P", "Z", 3) }

\* The signal distances of the searches; 0 is a distance the search accepts.
OffsetDistances == {0, 1, 2, 4}

InitOffsets == StartsAs(ThreeTracks)

NextOffsets ==
    \/ \E edge \in OffsetEdges : AddEdge(edge)
    \/ \E a \in {"P", "Q", "Z"}, d \in OffsetDistances :
          FindPlacement("Z", a, d)

SpecOffsets == InitOffsets /\ [][NextOffsets]_vars

\* ------------------------------------------------- one approach more

\* The station: three tracks A, B and C and the node M they lead to.
IncrementStation ==
    add_node(add_node(add_node(add_node(EmptyNetwork,
        RailwayNode("A", TRACK, <<0, 0>>, EmptyDict)),
        RailwayNode("B", TRACK, <<0, 100>>, EmptyDict)),
        RailwayNode("C", TRACK, <<0, 200>>, EmptyDict)),
        RailwayNode("M", TRACK, <<500, 100>>, EmptyDict))

\* A node the caller may add besides: a track of its own naming.
IncrementNodes == { RailwayNode("SIG_C_to_M", TRACK, <<250, 200>>, EmptyDict) }

\* The approach edges, added one at a time between the passes.
IncrementEdges ==
    { RailwayEdge("A", "M", 5), RailwayEdge("B", "M", 5),
      RailwayEdge("C", "M", 5) }

\* The signal distances of the passes.
IncrementDistances == {3, 6}

InitIncrement == StartsAs(IncrementStation)

NextIncrement ==
    \/ \E node \in IncrementNodes : AddNode(node)
    \/ \E edge \in IncrementEdges : AddEdge(edge)
    \/ \E d \in IncrementDistances : PlaceSignals(d)

SpecIncrement == InitIncrement /\ [][NextIncrement]_vars

\* ------------------------------------------------------------- properties

\* The elements of a list.
Range(s) == {s[i] : i \in 1..Len(s)}

\* The in-degree of n counted on self.edges, the network's own dictionary of
\* the edges it accepted.
EdgeInDegree(n) == Cardinality({e \in DOMAIN edges : e[2] = n})

\* The stored nodes with two or more incoming edges.
MergeNodes == {n \in DOMAIN nodes : EdgeInDegree(n) >= 2}

\* The last call was a classification pass: identify_cdl_zones, or
\* place_signals_before_cdl_zones, which runs it first.
AfterIdentify == ret.op = "identify_cdl_zones"
AfterPlace == ret.op = "place_signals_before_cdl_zones"

\* Node s is a signal that carries key in its metadata.
SignalWith(s, key) ==
    /\ nodes[s].node_type = SIGNAL
    /\ key \in DOMAIN nodes[s].metadata

\* The signal nodes whose protects_cdl_zone is z.
SignalsProtecting(z) ==
    {s \in DOMAIN nodes : /\ SignalWith(s, "protects_cdl_zone")
                          /\ nodes[s].metadata["protects_cdl_zone"] = z}

\* C1: identify_cdl_zones returns exactly the ids of the nodes with two or
\* more incoming edges, each once; with no such node it returns nothing.
C1_ZonesAreMergeNodes ==
    AfterIdentify =>
        /\ Range(ret.val) = MergeNodes
        /\ Len(ret.val) = Cardinality(MergeNodes)

\* C1: M, with two incoming edges, was returned and A, with none, was not.
C1_Witness ==
    /\ AfterIdentify
    /\ ret.val = <<"M">>
    /\ "A" \in DOMAIN nodes
    /\ EdgeInDegree("M") = 2

\* Approach a has a simple path of at most Cutoff edges to z, as the search
\* of the installed networkx finds it.
Reaches(a, z) == Len(all_simple_paths(graph, a, z, Cutoff, nx_trivial)) > 0

\* C2: after place_signals_before_cdl_zones, every conflict zone that all its
\* predecessors reach has as many protecting signals as incoming edges.
C2_OneSignalPerApproach ==
    AfterPlace =>
        \A z \in DOMAIN nodes :
            (/\ nodes[z].node_type = CDL_ZONE
             /\ \A e \in DOMAIN edges : e[2] = z => Reaches(e[1], z))
            => Cardinality(SignalsProtecting(z)) = EdgeInDegree(z)

\* C3, as claimed: right after a classification pass, a node's role is
\* conflict zone exactly when it has two or more incoming edges, whatever
\* role it was stored with.
C3_RoleIffMerge ==
    (AfterIdentify \/ AfterPlace) =>
        \A n \in DOMAIN nodes :
            nodes[n].node_type = CDL_ZONE <=> EdgeInDegree(n) >= 2

\* Node n is a conflict zone by the classifier's rewrite, which leaves
\* cdl_incoming_tracks in its metadata; add_node stores the catalogue's
\* nodes without it.
ZoneByClassifier(n) ==
    /\ nodes[n].node_type = CDL_ZONE
    /\ "cdl_incoming_tracks" \in DOMAIN nodes[n].metadata

\* C3, amended: right after a classification pass, every node with two or
\* more incoming edges is a conflict zone, and every conflict zone that
\* add_node did not store as one has two or more incoming edges.
C3_MergeIsZone ==
    (AfterIdentify \/ AfterPlace) =>
        \A n \in DOMAIN nodes :
            /\ EdgeInDegree(n) >= 2 => nodes[n].node_type = CDL_ZONE
            /\ ZoneByClassifier(n) => EdgeInDegree(n) >= 2

\* C3: after a pass M, with two incoming edges, is a zone by rewrite, A,
\* with none, is a track, and B, stored as a zone, has fewer than two.
C3_Witness ==
    /\ AfterIdentify
    /\ {"A", "B", "M"} \subseteq DOMAIN nodes
    /\ ZoneByClassifier("M") /\ EdgeInDegree("M") = 2
    /\ nodes["A"].node_type = TRACK /\ EdgeInDegree("A") = 0
    /\ nodes["B"].node_type = CDL_ZONE /\ EdgeInDegree("B") < 2

\* Every signal's protects_cdl_zone names a stored node whose role is
\* conflict zone.
SignalsProtectZones ==
    \A s \in DOMAIN nodes :
        SignalWith(s, "protects_cdl_zone") =>
            /\ nodes[s].metadata["protects_cdl_zone"] \in DOMAIN nodes
            /\ nodes[nodes[s].metadata["protects_cdl_zone"]].node_type
               = CDL_ZONE

\* C4, as claimed: in every reachable state every signal's protects_cdl_zone
\* names a stored node whose role is conflict zone.
C4_AlwaysProtectsZone == SignalsProtectZones

\* C4, amended: in the state right after identify_cdl_zones or
\* place_signals_before_cdl_zones returns, every signal that placement
\* created names in protects_cdl_zone a stored node whose role is conflict
\* zone.
C4_ProtectsZoneAfterPass == (AfterIdentify \/ AfterPlace) => SignalsProtectZones

\* C4: a classification pass has just run over a network with a signal and
\* returned the zone the signal protects.
C4_Witness ==
    /\ AfterIdentify
    /\ \E s \in DOMAIN nodes :
          /\ SignalWith(s, "protects_cdl_zone")
          /\ InSeq(ret.val, nodes[s].metadata["protects_cdl_zone"])

\* Both endpoints of every stored edge, and of every edge of the graph, are
\* stored nodes, and so is every node of the graph.
EdgesJoinNodes ==
    /\ \A e \in DOMAIN edges : e[1] \in DOMAIN nodes /\ e[2] \in DOMAIN nodes
    /\ DOMAIN graph.length = DOMAIN edges
    /\ Range(graph.order) \subseteq DOMAIN nodes

\* An add_edge that raised named an endpoint that was not stored, and left
\* the nodes, the edges, the graph and both derived sets as they were.
RaisedAddEdgeKeepsAll ==
    (ret'.op = "add_edge" /\ ret'.error = "ValueError") =>
        /\ ret'.arg[1] \notin DOMAIN nodes \/ ret'.arg[2] \notin DOMAIN nodes
        /\ UNCHANGED <<nodes, edges, graph, cdl_zones, signals>>

\* C5: add_edge raises when an endpoint is not stored and then changes
\* nothing; so both endpoints of every stored edge are stored nodes.
C5_AddEdgeNeedsEndpoints == []EdgesJoinNodes /\ [][RaisedAddEdgeKeepsAll]_vars

\* C5: add_edge raised for an edge from a stored node to one not stored.
C5_Witness ==
    /\ ret.op = "add_edge"
    /\ ret.error = "ValueError"
    /\ ret.arg[1] \in DOMAIN nodes
    /\ ret.arg[2] \notin DOMAIN nodes

\* C6: identify_cdl_zones called right after identify_cdl_zones returns the
\* same ids and changes no node, no graph attribute and neither derived set.
C6_IdentifyIdempotent ==
    [][(AfterIdentify /\ ret'.op = "identify_cdl_zones" /\ ret'.repeated) =>
          /\ ret'.val = ret.val
          /\ UNCHANGED <<nodes, edges, graph, cdl_zones, signals>>]_vars

\* C6: a second pass in a row has returned a node that the first rewrote.
C6_Witness ==
    /\ AfterIdentify
    /\ ret.repeated
    /\ ret.val # <<>>
    /\ \E n \in Range(ret.val) :
          "cdl_incoming_tracks" \in DOMAIN nodes[n].metadata

\* C7: place_signals_before_cdl_zones called right after itself with the same
\* distance returns nothing and leaves the nodes and the signal set alone.
C7_PlaceIdempotent ==
    [][(AfterPlace /\ ret'.op = "place_signals_before_cdl_zones"
        /\ ret'.repeated) =>
          /\ ret'.val = <<>>
          /\ UNCHANGED <<nodes, edges, graph, cdl_zones, signals>>]_vars

\* C7: a second placement in a row at distance d returned nothing over a
\* network whose signals the first created.
C7_Witness ==
    /\ AfterPlace
    /\ ret.repeated
    /\ ret.val = <<>>
    /\ signals # {}
    /\ \A s \in signals :
          /\ s \in DOMAIN nodes
          /\ SignalWith(s, "distance_to_cdl")
          /\ nodes[s].metadata["distance_to_cdl"] = ret.arg[1]

\* The signals a placement returns carry its signal_distance.
CreatedWithDistance ==
    ret'.op = "place_signals_before_cdl_zones" =>
        \A s \in Range(ret'.val) :
            /\ s \in DOMAIN nodes' \ DOMAIN nodes
            /\ nodes'[s].metadata["distance_to_cdl"] = ret'.arg[1]

\* Signal s is stored after the step with the distance_to_cdl it has now.
KeepsDistance(s) ==
    /\ s \in DOMAIN nodes'
    /\ "distance_to_cdl" \in DOMAIN nodes'[s].metadata
    /\ nodes'[s].metadata["distance_to_cdl"]
       = nodes[s].metadata["distance_to_cdl"]

\* The step is an add_node that stored another node under the id s.
Replaced(s) == ret'.op = "add_node" /\ nodes'[s] # nodes[s]

\* C8, as claimed: a created signal's distance_to_cdl is the signal_distance
\* of the call that created it, whatever offset was achieved, and every
\* later call keeps it.
C8_KeptByEveryCall ==
    [][/\ CreatedWithDistance
       /\ \A s \in DOMAIN nodes :
             SignalWith(s, "distance_to_cdl") => KeepsDistance(s)]_vars

\* C8, amended: a created signal's distance_to_cdl is the signal_distance of
\* the call that created it, whatever offset was achieved, and every later
\* call keeps it but an add_node that stores another node under the
\* signal's id.
C8_DistanceIsRequested ==
    [][/\ CreatedWithDistance
       /\ \A s \in DOMAIN nodes :
             SignalWith(s, "distance_to_cdl") =>
                 KeepsDistance(s) \/ Replaced(s)]_vars

\* C8: a signal asked for at distance 3 sits at offset 0 of its placement
\* node, and a later call has been made.
C8_Witness ==
    /\ AfterIdentify
    /\ \E s \in DOMAIN nodes :
          /\ SignalWith(s, "distance_to_cdl")
          /\ nodes[s].metadata["distance_to_cdl"] = 3
          /\ nodes[s].metadata["offset_from_placement"] = 0

\* The last call was find_signal_placement_point(FoundZone, FoundApproach,
\* FoundDistance).
AfterFind == ret.op = "find_signal_placement_point"
FoundZone == ret.arg[1]
FoundApproach == ret.arg[2]
FoundDistance == ret.arg[3]

\* The simple paths from a to z over the stored edges, of at most Cutoff
\* edges: sequences of distinct nodes joined by edges of self.edges.
SimplePathSet(a, z) ==
    {p \in UNION {[1..n -> DOMAIN nodes] : n \in 2..Cardinality(DOMAIN nodes)} :
        /\ p[1] = a
        /\ p[Len(p)] = z
        /\ Len(p) - 1 <= Cutoff
        /\ \A i, j \in 1..Len(p) : i # j => p[i] # p[j]
        /\ \A i \in 1..(Len(p) - 1) : <<p[i], p[i + 1]>> \in DOMAIN edges}

\* The total length of path p from its index i on, by self.edges.
RECURSIVE EdgeSum(_, _)
EdgeSum(p, i) ==
    IF i >= Len(p) THEN 0
    ELSE edges[<<p[i], p[i + 1]>>].length + EdgeSum(p, i + 1)

\* C9: when the shortest simple path from the approach to the zone is shorter
\* than the signal distance, the search returns the approach at offset 0.
C9_ShortApproachFallsBack ==
    AfterFind =>
        ((\E p \in SimplePathSet(FoundApproach, FoundZone) :
              EdgeSum(p, 1) < FoundDistance)
         => ret.val = <<FoundApproach, 0>>)

\* C9: the search from A fell back to A although a longer route from A
\* reaches the signal distance.
C9_Witness ==
    /\ AfterFind
    /\ FoundApproach = "A"
    /\ ret.val = <<"A", 0>>
    /\ \E p, q \in SimplePathSet("A", FoundZone) :
          EdgeSum(p, 1) < FoundDistance /\ EdgeSum(q, 1) >= FoundDistance

\* The path the search selects.
SelectedPath ==
    MinPath(graph, all_simple_paths(graph, FoundApproach, FoundZone, Cutoff,
                                    nx_trivial))

\* Walking SelectedPath backward, the edge into its node i is the first at
\* which the length accumulated behind it plus its own reaches the distance.
FirstReaching(i) ==
    /\ EdgeSum(SelectedPath, i - 1) >= FoundDistance
    /\ EdgeSum(SelectedPath, i) < FoundDistance

\* C10: the search returns the tail node p of the first edge (p, c), walking
\* backward from the zone, at which accumulated + length(p, c) >= distance,
\* with offset distance - accumulated.
C10_SegmentRule ==
    (AfterFind /\ ret.val # None) =>
        \A i \in 2..Len(SelectedPath) :
            FirstReaching(i) =>
                ret.val = <<SelectedPath[i - 1],
                            FoundDistance - EdgeSum(SelectedPath, i)>>

\* C10: the search from A placed the signal at B, past edges nearer the
\* zone, and on an edge whose end is exactly the signal distance away.
C10_Witness ==
    /\ AfterFind
    /\ FoundApproach = "A"
    /\ ret.val # None
    /\ ret.val[1] = "B"
    /\ ret.val[2] < FoundDistance
    /\ \E i \in 2..Len(SelectedPath) :
          /\ FirstReaching(i)
          /\ EdgeSum(SelectedPath, i - 1) = FoundDistance

\* The station has the three edges of the short-approach scenario.
ShortApproachBuilt ==
    DOMAIN edges = {<<"START", "MID">>, <<"MID", "CDL">>, <<"OTHER", "CDL">>}

\* The last call placed signal s, or searched from approach a, at distance
\* 500 over the whole scenario; s then sits at the position of node p with
\* offset_from_placement o, and the search returned <<p, o>>.
PlacedAt(s, p, o) ==
    (AfterPlace /\ ret.arg = <<500>> /\ InSeq(ret.val, s)
     /\ ShortApproachBuilt) =>
        /\ nodes[s].position = nodes[p].position
        /\ nodes[s].metadata["offset_from_placement"] = o

FoundAt(a, p, o) ==
    (AfterFind /\ ret.arg = <<"CDL", a, 500>> /\ ShortApproachBuilt) =>
        ret.val = <<p, o>>

\* C11, as claimed: at distance 500 the route START-MID-CDL gets its signal
\* at placement node MID with offset 200, and the approach from OTHER an
\* interior placement with an offset that is not 0.
C11_ShortApproachOffset200 ==
    /\ PlacedAt("SIG_MID_to_CDL", "MID", 200)
    /\ FoundAt("START", "MID", 200)
    /\ PlacedAt("SIG_OTHER_to_CDL", "OTHER", 500)

\* C11, amended: at distance 500 the route START-MID-CDL gets its signal at
\* placement node MID with offset 500, the distance back from CDL, and the
\* approach from OTHER gets placement node OTHER with offset 500, not the
\* origin fallback's 0.
C11_ShortApproachOffset500 ==
    /\ PlacedAt("SIG_MID_to_CDL", "MID", 500)
    /\ FoundAt("START", "MID", 500)
    /\ FoundAt("MID", "MID", 500)
    /\ PlacedAt("SIG_OTHER_to_CDL", "OTHER", 500)
    /\ FoundAt("OTHER", "OTHER", 500)

\* C11: placement at 500 over the whole scenario has just created both
\* signals.
C11_Witness ==
    /\ AfterPlace
    /\ ret.arg = <<500>>
    /\ ShortApproachBuilt
    /\ Range(ret.val) = {"SIG_MID_to_CDL", "SIG_OTHER_to_CDL"}

\* The nodes a walk of at most k edges of self.edges reaches from a.
RECURSIVE WithinHops(_, _)
WithinHops(a, k) ==
    IF k = 0 THEN {a}
    ELSE LET near == WithinHops(a, k - 1)
         IN  near \cup {e[2] : e \in {f \in DOMAIN edges : f[1] \in near}}

\* The search found a placement exactly when the zone is within Cutoff edges
\* of the approach: a shortest walk repeats no node, so it is a simple path.
FoundIffWithinCutoff ==
    ret.val # None <=> FoundZone \in WithinHops(FoundApproach, Cutoff)

\* C12: find_signal_placement_point returns a placement when a simple path
\* of at most 10 edges leads from the approach to the zone, and None, with
\* no error, when every simple path has 11 edges or more or there is none;
\* it changes no state.
C12_BoundedSimplePaths ==
    AfterFind =>
        /\ ret.error = ""
        /\ FoundIffWithinCutoff

\* C12 for an approach and a zone that are nodes of the graph.
C12_BoundedForNodes ==
    (AfterFind /\ FoundApproach \in DOMAIN nodes /\ FoundZone \in DOMAIN nodes)
    =>  /\ ret.error = ""
        /\ FoundIffWithinCutoff

\* The zone is exactly k edges from the approach and no nearer.
ExactlyHops(k) ==
    /\ FoundZone \in WithinHops(FoundApproach, k)
    /\ FoundZone \notin WithinHops(FoundApproach, k - 1)

\* C12: a search over a shortest route of exactly 10 edges found a
\* placement.
C12_TenEdgesFound == AfterFind /\ ExactlyHops(Cutoff) /\ ret.val # None

\* C12: a search over a shortest route of 11 edges found none.
C12_ElevenEdgesAbsent ==
    AfterFind /\ ExactlyHops(Cutoff + 1) /\ ret.val = None /\ ret.error = ""

\* The paths the search enumerates, in its order.
EnumeratedPaths ==
    all_simple_paths(graph, FoundApproach, FoundZone, Cutoff, nx_trivial)

\* The least total length of a simple path from the approach to the zone,
\* by self.edges.
LeastLength ==
    LET lengths == {EdgeSum(p, 1) : p \in SimplePathSet(FoundApproach, FoundZone)}
    IN  CHOOSE l \in lengths : \A m \in lengths : l <= m

\* The enumerated path at index k has the least length.
IsShortest(k) == EdgeSum(EnumeratedPaths[k], 1) = LeastLength

\* The first enumerated path of least length.
FirstShortest ==
    EnumeratedPaths[CHOOSE k \in 1..Len(EnumeratedPaths) :
                        IsShortest(k) /\ \A j \in 1..(k - 1) : ~IsShortest(j)]

\* The placement the backward walk gives on path p.
PlacementOn(p) == WalkBackward(graph, p, Len(p), 0, FoundDistance)

\* C13: the search enumerates the simple paths from the approach to the
\* zone, and its placement is the one on the first enumerated path of least
\* total length.
C13_FirstShortestPath ==
    (AfterFind /\ ret.val # None) =>
        /\ Range(EnumeratedPaths) = SimplePathSet(FoundApproach, FoundZone)
        /\ ret.val = PlacementOn(FirstShortest)

\* C13: two enumerated paths share the least length and give different
\* placements; the search returned the placement on the earlier one.
C13_Witness ==
    /\ AfterFind
    /\ ret.val # None
    /\ \E j, k \in 1..Len(EnumeratedPaths) :
          /\ j < k
          /\ IsShortest(j) /\ IsShortest(k)
          /\ PlacementOn(EnumeratedPaths[j]) # PlacementOn(EnumeratedPaths[k])
          /\ ret.val = PlacementOn(EnumeratedPaths[j])

\* The ids of the stored nodes whose role is t.
WithRole(t) == {n \in DOMAIN nodes : nodes[n].node_type = t}

\* C14: in every reachable state self.cdl_zones is the set of the nodes whose
\* role is conflict zone and self.signals the set of the nodes whose role is
\* signal.
C14_DerivedSetsMatchRoles ==
    /\ cdl_zones = WithRole(CDL_ZONE)
    /\ signals = WithRole(SIGNAL)

\* Each derived set holds at least the nodes of its role, as long as no
\* add_node has raised: an id enters it with the role and never leaves it.
DerivedSetsCoverRoles ==
    /\ WithRole(CDL_ZONE) \subseteq cdl_zones
    /\ WithRole(SIGNAL) \subseteq signals

\* No element of the list s occurs twice.
NoDuplicates(s) == \A i, j \in 1..Len(s) : s[i] = s[j] => i = j

\* The placement the search gives, over the graph after the step, for the
\* approach, zone and distance the signal s records after the step.
PlacementOf(s) ==
    find_signal_placement_point(graph', nodes'[s].metadata["protects_cdl_zone"],
        nodes'[s].metadata["approach_from"],
        nodes'[s].metadata["distance_to_cdl"], nx_trivial)

\* The signal s is, after the step, a node of role signal at the position
\* of its placement node and a member of self.signals.
CreatedSignal(s) ==
    /\ nodes'[s].node_type = SIGNAL
    /\ nodes'[s].position = nodes'[PlacementOf(s)[1]].position
    /\ s \in signals'

\* C15: place_signals_before_cdl_zones returns, without duplicates, exactly
\* the ids that are nodes after the call and were not before; each is then a
\* signal at its placement node's position and in self.signals.
C15_ReturnsCreatedSignals ==
    [][ret'.op = "place_signals_before_cdl_zones" =>
          /\ NoDuplicates(ret'.val)
          /\ Range(ret'.val) = DOMAIN nodes' \ DOMAIN nodes
          /\ \A s \in Range(ret'.val) : CreatedSignal(s)]_vars

\* C15: a placement has created the signal of approach A at the position of
\* B, its placement node on the shorter route through B, and the signal of
\* approach B.
C15_Witness ==
    /\ AfterPlace
    /\ Range(ret.val) = {"SIG_A_to_M", "SIG_B_to_M"}
    /\ nodes["SIG_A_to_M"].position = nodes["B"].position
    /\ nodes["SIG_B_to_M"].position = nodes["B"].position

\* After the step every node with two or more incoming edges has the role
\* conflict zone and is in self.cdl_zones.
MergesClassified ==
    \A n \in DOMAIN nodes' :
        Cardinality({e \in DOMAIN edges' : e[2] = n}) >= 2 =>
            nodes'[n].node_type = CDL_ZONE /\ n \in cdl_zones'

\* The step made z a conflict zone.
NewlyClassified(z) ==
    nodes[z].node_type # CDL_ZONE /\ nodes'[z].node_type = CDL_ZONE

\* After the step the signal of approach a to zone z is stored: a node of
\* role signal under the planner's id that protects z from a.
SignalStored(a, z) ==
    /\ SignalId(a, z) \in DOMAIN nodes'
    /\ nodes'[SignalId(a, z)].node_type = SIGNAL
    /\ nodes'[SignalId(a, z)].metadata
       = SignalMetadata(z, a, nodes'[SignalId(a, z)].metadata["distance_to_cdl"],
                        nodes'[SignalId(a, z)].metadata["offset_from_placement"])

\* C16: place_signals_before_cdl_zones classifies first: when it returns,
\* every node with two or more incoming edges is a conflict zone and in
\* self.cdl_zones, and every approach (other than the zone itself) of a zone
\* that this call classified has its signal.
C16_PlacementClassifiesFirst ==
    [][ret'.op = "place_signals_before_cdl_zones" =>
          /\ MergesClassified
          /\ \A z \in DOMAIN nodes : NewlyClassified(z) =>
                \A e \in DOMAIN edges :
                    (e[2] = z /\ e[1] # z) => SignalStored(e[1], z)]_vars

\* The step is a classification pass: identify_cdl_zones, or
\* place_signals_before_cdl_zones, which runs it.
PassStep ==
    ret'.op \in {"identify_cdl_zones", "place_signals_before_cdl_zones"}

\* The predecessors of n, by self.edges.
EdgePredecessors(n) == {e[1] : e \in {f \in DOMAIN edges : f[2] = n}}

\* C17, as claimed: across a classification pass a node whose role is
\* platform, entry point, exit point or signal keeps its role, a role changes
\* only from track or switch to conflict zone, and no other field of a
\* stored node changes.
C17_OnlyTrackOrSwitchRewritten ==
    [][PassStep =>
          \A n \in DOMAIN nodes :
              /\ nodes[n].node_type \in {PLATFORM, ENTRY_POINT, EXIT_POINT, SIGNAL}
                 => nodes'[n].node_type = nodes[n].node_type
              /\ nodes'[n].node_type # nodes[n].node_type
                 => /\ nodes[n].node_type \in {TRACK, SWITCH}
                    /\ nodes'[n].node_type = CDL_ZONE
              /\ nodes'[n].id = nodes[n].id
              /\ nodes'[n].position = nodes[n].position
              /\ nodes'[n].metadata = nodes[n].metadata]_vars

\* Across the step node n gets the role conflict zone and, in its metadata,
\* the list of its predecessors under cdl_incoming_tracks; its id, its
\* position and the rest of its metadata stay.
Promoted(n) ==
    /\ nodes'[n].node_type = CDL_ZONE
    /\ nodes'[n].id = nodes[n].id
    /\ nodes'[n].position = nodes[n].position
    /\ DOMAIN nodes'[n].metadata
       = DOMAIN nodes[n].metadata \cup {"cdl_incoming_tracks"}
    /\ \A k \in DOMAIN nodes[n].metadata \ {"cdl_incoming_tracks"} :
          nodes'[n].metadata[k] = nodes[n].metadata[k]
    /\ NoDuplicates(nodes'[n].metadata["cdl_incoming_tracks"])
    /\ Range(nodes'[n].metadata["cdl_incoming_tracks"]) = EdgePredecessors(n)

\* C17, amended: across a classification pass a stored node with two or
\* more incoming edges whose role is not conflict zone, whatever that role
\* is, gets the role conflict zone and the key cdl_incoming_tracks in its
\* metadata; nothing else of it changes, and no other stored node changes.
C17_MergeRewritten ==
    [][PassStep =>
          \A n \in DOMAIN nodes :
              IF EdgeInDegree(n) >= 2 /\ nodes[n].node_type # CDL_ZONE
              THEN Promoted(n)
              ELSE nodes'[n] = nodes[n]]_vars

\* C17: a pass has made the platform SW, which carries its name, a conflict
\* zone and returned it.
C17_Witness ==
    /\ AfterIdentify
    /\ InSeq(ret.val, "SW")
    /\ nodes["SW"].node_type = CDL_ZONE
    /\ DOMAIN nodes["SW"].metadata = {"name", "cdl_incoming_tracks"}

\* Node n is a conflict zone that carries the classifier's list.
HasSnapshot(n) ==
    /\ nodes[n].node_type = CDL_ZONE
    /\ "cdl_incoming_tracks" \in DOMAIN nodes[n].metadata

\* C18: the pass that makes a node a conflict zone records under
\* cdl_incoming_tracks the predecessors the node has then; a later pass
\* returns the zone again and leaves the recorded list as it is, whatever
\* edges were added to the zone since.
C18_SnapshotNotRefreshed ==
    [][PassStep =>
          \A n \in DOMAIN nodes :
              /\ NewlyClassified(n) =>
                    /\ NoDuplicates(nodes'[n].metadata["cdl_incoming_tracks"])
                    /\ Range(nodes'[n].metadata["cdl_incoming_tracks"])
                       = EdgePredecessors(n)
              /\ HasSnapshot(n) =>
                    /\ nodes'[n].metadata["cdl_incoming_tracks"]
                       = nodes[n].metadata["cdl_incoming_tracks"]
                    /\ (ret'.op = "identify_cdl_zones" /\ EdgeInDegree(n) >= 2)
                       => InSeq(ret'.val, n)]_vars

\* C18: a pass has returned the zone SW, which has three incoming edges and
\* still carries the list of the two it had when it was made a zone.
C18_Witness ==
    /\ AfterIdentify
    /\ InSeq(ret.val, "SW")
    /\ EdgeInDegree("SW") = 3
    /\ HasSnapshot("SW")
    /\ Len(nodes["SW"].metadata["cdl_incoming_tracks"]) = 2

\* The graph has the edges of self.edges, each ordered pair with the length
\* stored for it, and the adjacency of those pairs without repetition.
GraphHasStoredEdges ==
    /\ DOMAIN graph.length = DOMAIN edges
    /\ \A e \in DOMAIN edges :
          /\ graph.length[e] = edges[e].length
          /\ calculate_distance_along_path(graph, e) = edges[e].length
    /\ \A n \in DOMAIN graph.pred :
          /\ NoDuplicates(Predecessors(graph, n))
          /\ Range(Predecessors(graph, n)) = EdgePredecessors(n)

\* The sum of the lengths stored in self.edges for the pairs of keys.
RECURSIVE StoredLength(_)
StoredLength(keys) ==
    IF keys = {} THEN 0
    ELSE LET k == CHOOSE x \in keys : TRUE
         IN  edges[k].length + StoredLength(keys \ {k})

\* The statistics count every ordered pair once and sum the stored lengths.
StatisticsUseStoredEdges ==
    ret.op = "get_network_statistics" =>
        /\ ret.val.total_edges = Cardinality(DOMAIN edges)
        /\ ret.val.total_track_length = StoredLength(DOMAIN edges)

\* An add_edge for a pair that has an edge leaves the number of edges and
\* every predecessor and successor sequence as they were, and changes the
\* length of no other pair.
OverwriteKeepsAdjacency ==
    (ret'.op = "add_edge" /\ ret'.error = "" /\ DOMAIN edges' = DOMAIN edges) =>
        /\ Cardinality(DOMAIN graph'.length) = Cardinality(DOMAIN graph.length)
        /\ graph'.pred = graph.pred
        /\ graph'.succ = graph.succ
        /\ \A e, f \in DOMAIN edges :
              (edges'[e] # edges[e] /\ f # e) =>
                  edges'[f] = edges[f] /\ graph'.length[f] = graph.length[f]

\* C19: an add_edge for a pair (u, v) that has an edge replaces its length
\* and leaves the number of edges, the in-degrees and the predecessor
\* sequences unchanged; (u, v) and (v, u) are two edges with their own
\* lengths; path lengths and the total track length use the stored length
\* of each pair only.
C19_EdgePerOrderedPair ==
    /\ [](GraphHasStoredEdges /\ StatisticsUseStoredEdges)
    /\ [][OverwriteKeepsAdjacency]_vars

\* C19: both directions between U and V are stored, U-V with the length 250
\* and V-U with 400, and the statistics count two edges of total length 650.
C19_Witness ==
    /\ ret.op = "get_network_statistics"
    /\ DOMAIN edges = {<<"U", "V">>, <<"V", "U">>}
    /\ edges[<<"U", "V">>].length = 250
    /\ edges[<<"V", "U">>].length = 400
    /\ ret.val.total_edges = 2
    /\ ret.val.total_track_length = 650

\* After the step the graph attributes of id are its role, its position and
\* the metadata of the node now stored under id, and nothing else.
OnlyOwnAttributes(id) ==
    DOMAIN graph'.node[id]
    = {"node_type", "position"} \cup DOMAIN nodes'[id].metadata

\* C20: add_node for an id that is stored replaces the stored node; then no
\* attribute of the node it replaces is left under that id, in the node
\* record or in the graph, and the edges are kept.
C20_OverwriteDiscardsAttributes ==
    [][ret'.op = "add_node" =>
          /\ ret'.error = ""
          /\ edges' = edges
          /\ graph'.length = graph.length
          /\ \A n \in DOMAIN graph.pred :
                graph'.pred[n] = graph.pred[n] /\ graph'.succ[n] = graph.succ[n]
          /\ \A id \in DOMAIN nodes :
                nodes'[id] # nodes[id] =>
                    /\ nodes'[id] \in RolesNodes
                    /\ OnlyOwnAttributes(id)]_vars

\* The sum, over the consecutive pairs of path p from index i on, of the
\* length self.edges stores for the pair, and 0 for a pair it does not store.
RECURSIVE StoredSum(_, _)
StoredSum(p, i) ==
    IF i >= Len(p) THEN 0
    ELSE (IF <<p[i], p[i + 1]>> \in DOMAIN edges
          THEN edges[<<p[i], p[i + 1]>>].length ELSE 0)
         + StoredSum(p, i + 1)

\* The last call was calculate_distance_along_path.
AfterDistance == ret.op = "calculate_distance_along_path"

\* C21: calculate_distance_along_path returns the sum of the lengths of the
\* consecutive pairs of the path that are stored edges, counting 0 for a pair
\* that is none and for a path of fewer than two nodes; it raises nothing and
\* changes no state.
C21_PathLengthSkipsGaps ==
    /\ [](AfterDistance =>
            /\ ret.error = ""
            /\ ret.val = StoredSum(ret.arg[1], 1)
            /\ Len(ret.arg[1]) < 2 => ret.val = 0)
    /\ [][ret'.op = "calculate_distance_along_path" =>
            UNCHANGED <<nodes, edges, graph, cdl_zones, signals>>]_vars

\* C21: the path U, W, V was measured as 300: no edge joins U to W, and the
\* edge from W to V has length 300.
C21_Witness ==
    /\ AfterDistance
    /\ ret.arg[1] = <<"U", "W", "V">>
    /\ <<"U", "W">> \notin DOMAIN edges
    /\ <<"W", "V">> \in DOMAIN edges
    /\ ret.val = 300

\* The edges of the graph, as ordered pairs.
GraphEdges(g) ==
    {e \in (DOMAIN g.succ) \X (DOMAIN g.succ) : HasEdge(g, e[1], e[2])}

\* C22: no call deletes anything: across every step the stored node ids, the
\* graph's nodes, the stored edges, the graph's edges, the conflict-zone set
\* and the signal set keep all they held, and no node's in-degree decreases.
C22_NothingDeleted ==
    [][/\ DOMAIN nodes \subseteq DOMAIN nodes'
       /\ DOMAIN graph.node \subseteq DOMAIN graph'.node
       /\ DOMAIN edges \subseteq DOMAIN edges'
       /\ GraphEdges(graph) \subseteq GraphEdges(graph')
       /\ cdl_zones \subseteq cdl_zones'
       /\ signals \subseteq signals'
       /\ \A n \in DOMAIN graph.node :
              InDegree(graph, n) <= InDegree(graph', n)]_vars

\* C22: add_node has stored M as a signal after M was classified as a
\* conflict zone and a signal was placed before it: M is still in the
\* conflict-zone set, its in-degree is still 2 and the placed signal is
\* still stored.
C22_Witness ==
    /\ ret.op = "add_node"
    /\ "M" \in DOMAIN nodes
    /\ nodes["M"].node_type = SIGNAL
    /\ "M" \in cdl_zones
    /\ InDegree(graph, "M") = 2
    /\ "SIG_A_to_M" \in signals

\* The approach and the zone recorded in the signal node s.
ApproachOf(s) == nodes[s].metadata["approach_from"]
ZoneOf(s) == nodes[s].metadata["protects_cdl_zone"]

\* C23 as stated: the id of every signal a pass has created is SIG_, the
\* approach id, one underscore and the zone id.
C23_IdJoinedByUnderscore ==
    AfterPlace =>
        \A s \in Range(ret.val) :
            s = "SIG_" \o ApproachOf(s) \o "_" \o ZoneOf(s)

\* C23, amended: the id of every signal a pass has created is SIG_, the
\* approach id, the literal _to_ and the zone id, whatever the distance and
\* the rest of the network.
C23_IdJoinedByTo ==
    AfterPlace =>
        \A s \in Range(ret.val) :
            s = "SIG_" \o ApproachOf(s) \o "_to_" \o ZoneOf(s)

\* C23: a pass has created the signal of approach B before zone M, and
\* named it SIG_B_to_M.
C23_Witness ==
    /\ AfterPlace
    /\ InSeq(ret.val, "SIG_B_to_M")
    /\ ApproachOf("SIG_B_to_M") = "B"
    /\ ZoneOf("SIG_B_to_M") = "M"

\* The signal s records an approach whose own edge into the zone is stored
\* and at least as long as the distance d.
ApproachEdgeReaches(s, d) ==
    /\ <<ApproachOf(s), ZoneOf(s)>> \in DOMAIN edges
    /\ edges[<<ApproachOf(s), ZoneOf(s)>>].length >= d

\* C24: a signal created by place_signals_before_cdl_zones(D) for an
\* approach whose direct edge into the zone has length >= D > 0 sits at the
\* approach node with offset D, whatever other paths lead to the zone.
C24_SignalOnApproachEdge ==
    AfterPlace =>
        \A s \in Range(ret.val) :
            ApproachEdgeReaches(s, ret.arg[1]) =>
                /\ nodes[s].position = nodes[ApproachOf(s)].position
                /\ nodes[s].metadata["offset_from_placement"] = ret.arg[1]

\* The approaches a pass over graph g visits: the pairs <<z, a>> of a node z
\* of in-degree above 1 and a predecessor a of z other than z itself.
PlannerApproaches(g) ==
    {e \in (DOMAIN g.pred) \X (DOMAIN g.pred) :
        /\ InDegree(g, e[1]) > 1
        /\ InSeq(Predecessors(g, e[1]), e[2])
        /\ e[1] # e[2]}

\* C25: for every zone and every predecessor of it other than the zone
\* itself the placement search returns a placement, at any distance; so a
\* pass never skips such an approach for want of a placement: the signal id
\* of each is a node before the pass or is returned by it.
C25_PlannerSearchNeverAbsent ==
    /\ [](\A e \in PlannerApproaches(graph) : \A d \in Distances :
            find_signal_placement_point(graph, e[1], e[2], d, nx_trivial)
                # None)
    /\ [][ret'.op = "place_signals_before_cdl_zones" =>
            \A e \in PlannerApproaches(graph) :
                \/ SignalId(e[2], e[1]) \in DOMAIN nodes
                \/ InSeq(ret'.val, SignalId(e[2], e[1]))]_vars

\* C25: a pass at a distance longer than the approach edge from A, of length
\* 2, has created the signal of approach A before zone M, at offset 0.
C25_Witness ==
    /\ AfterPlace
    /\ <<"A", "M">> \in DOMAIN edges
    /\ edges[<<"A", "M">>].length < ret.arg[1]
    /\ InSeq(ret.val, "SIG_A_to_M")
    /\ nodes["SIG_A_to_M"].metadata["offset_from_placement"] = 0

\* The returned placement is on the edge into node i of SelectedPath: its
\* node is the edge's tail, its offset is above 0 and at most the edge's
\* length, and the offset plus the lengths from node i to the zone is the
\* signal distance.
OnSegment(i) ==
    /\ ret.val[1] = SelectedPath[i - 1]
    /\ 0 < ret.val[2]
    /\ ret.val[2] <= edges[<<SelectedPath[i - 1], SelectedPath[i]>>].length
    /\ ret.val[2] + EdgeSum(SelectedPath, i) = FoundDistance

\* C26: at a distance above 0, a search whose selected path is at least as
\* long as the distance returns a placement on one of the path's edges, with
\* 0 < offset <= the edge's length and offset + the lengths from the edge's
\* head to the zone = distance; the offset is 0 only when the path is
\* shorter than the distance, and the placement is then the approach.
C26_OffsetWithinSegment ==
    (AfterFind /\ ret.val # None /\ FoundDistance > 0) =>
        /\ EdgeSum(SelectedPath, 1) >= FoundDistance =>
              \E i \in 2..Len(SelectedPath) : OnSegment(i)
        /\ ret.val[2] = 0 =>
              /\ EdgeSum(SelectedPath, 1) < FoundDistance
              /\ ret.val[1] = FoundApproach

\* C26: the search from P at distance 1 walked back over the edge from Q to
\* Z, of length 0, and placed the signal on the edge from P to Q at offset 1.
C26_Witness ==
    /\ AfterFind
    /\ FoundDistance = 1
    /\ ret.val = <<"P", 1>>
    /\ SelectedPath = <<"P", "Q", "Z">>
    /\ edges[<<"Q", "Z">>].length = 0

\* C27: a placement the search returns for an approach other than the zone
\* is a node of a simple path of at most 10 edges from the approach to the
\* zone, and is not the zone; when the selected path is shorter than the
\* distance it is the approach itself, at offset 0.
C27_PlacementOnPathBeforeZone ==
    (AfterFind /\ ret.val # None /\ FoundApproach # FoundZone) =>
        /\ \E p \in SimplePathSet(FoundApproach, FoundZone) :
              ret.val[1] \in Range(p)
        /\ ret.val[1] # FoundZone
        /\ EdgeSum(SelectedPath, 1) < FoundDistance =>
              ret.val = <<FoundApproach, 0>>

\* C27: the search from P returned the node Q, between P and the zone Z.
C27_Witness ==
    /\ AfterFind
    /\ FoundApproach = "P"
    /\ FoundZone = "Z"
    /\ ret.val # None
    /\ ret.val[1] = "Q"

\* Some stored node is the signal of approach a before zone z.
HasSignalFor(a, z) ==
    \E s \in DOMAIN nodes :
        /\ nodes[s].node_type = SIGNAL
        /\ SignalWith(s, "approach_from") /\ ApproachOf(s) = a
        /\ SignalWith(s, "protects_cdl_zone") /\ ZoneOf(s) = z

\* C28: the synthesized id of an approach collides with no other node, so a
\* pass creates, and returns, the signal of every approach of a zone that
\* has no signal yet: the check on the id never suppresses it.
C28_SkipNeverSuppresses ==
    [][ret'.op = "place_signals_before_cdl_zones" =>
          \A e \in PlannerApproaches(graph) :
              ~HasSignalFor(e[2], e[1]) =>
                  InSeq(ret'.val, SignalId(e[2], e[1]))]_vars

\* The step is an add_edge that stores a new edge from b into z, a node that
\* has two or more incoming edges already.
AddsApproach(b, z) ==
    /\ ret'.op = "add_edge" /\ ret'.error = ""
    /\ InDegree(graph, z) > 1
    /\ ~InSeq(Predecessors(graph, z), b)
    /\ DOMAIN edges' = DOMAIN edges \cup {<<b, z>>}

\* The pass at distance d over the network after the step: the network it
\* leaves (self) and the list it returns (new_signals).
PassAfterStep(d) ==
    place_signals_before_cdl_zones(
        [nodes |-> nodes', edges |-> edges', graph |-> graph',
         cdl_zones |-> cdl_zones', signals |-> signals'], d, nx_trivial)

\* The pass after the step creates one signal, of approach b before zone z,
\* and leaves the nodes of self.signals as they were.
OneMoreSignal(b, z, d) ==
    LET r == PassAfterStep(d)
    IN  /\ Len(r.new_signals) = 1
        /\ r.self.nodes[r.new_signals[1]].node_type = SIGNAL
        /\ r.self.nodes[r.new_signals[1]].metadata["approach_from"] = b
        /\ r.self.nodes[r.new_signals[1]].metadata["protects_cdl_zone"] = z
        /\ \A s \in signals : r.self.nodes[s] = nodes[s]

\* C29: when a pass at distance D is followed by an add_edge that gives a
\* conflict zone z a new predecessor b, a second pass at distance D creates
\* exactly one signal, of approach b before z, and leaves every signal
\* created before unchanged.
C29_IncrementalPlacement ==
    [][\A b, z \in DOMAIN nodes :
          (AfterPlace /\ AddsApproach(b, z)) =>
              OneMoreSignal(b, z, ret.arg[1])]_vars

\* C30: a pass called right after a pass at another distance returns the
\* empty list and leaves every node, and so every signal's distance_to_cdl
\* and offset_from_placement, as the first pass left it.
C30_OtherDistanceKeepsSignals ==
    [][(AfterPlace /\ ret'.op = "place_signals_before_cdl_zones"
        /\ ret'.arg # ret.arg) =>
          /\ ret'.val = <<>>
          /\ \A s \in signals :
                /\ s \in signals'
                /\ nodes'[s] = nodes[s]
          /\ UNCHANGED <<nodes, edges, graph, cdl_zones, signals>>]_vars

\* C30: a pass at distance 5 returned nothing over a network whose signal
\* of approach A records the distance 3 and the offset of a pass at 3.
C30_Witness ==
    /\ AfterPlace
    /\ ret.arg = <<5>>
    /\ ret.val = <<>>
    /\ ~ret.repeated
    /\ "SIG_A_to_M" \in signals
    /\ SignalWith("SIG_A_to_M", "distance_to_cdl")
    /\ nodes["SIG_A_to_M"].metadata["distance_to_cdl"] = 3
    /\ nodes["SIG_A_to_M"].metadata["offset_from_placement"] = 3

====
